---- MODULE Spec2Model ----
(***************************************************************************)
(* Model of inventory_system.py: the process-wide mapping stock_data, the  *)
(* operations add_item, remove_item, get_qty, check_low_items, load_data   *)
(* and save_data, the caller's log list, and the JSON file the mapping is  *)
(* written to and read from.                                               *)
(*                                                                         *)
(* Python values are tagged records.  A number is [t, h]: t is "int" or    *)
(* "float" and h is the value counted in halves (an int has an even h), so *)
(* that the arithmetic of the model is exact, as Python's is on such       *)
(* values.  Text is a sequence of one-character strings.  A dict is the    *)
(* sequence of its entries in insertion order.                             *)
(***************************************************************************)
EXTENDS Integers, Sequences, FiniteSets, TLC

VARIABLES stock_data, logs, file, mode, last, deleted, given

vars == <<stock_data, logs, file, mode, last, deleted, given>>

\* ------------------------------------------------------------------ bounds

\* Largest magnitude, in halves, of a quantity add_item may produce.
MaxHalves == 2
\* Longest caller's log.
MaxLog == 2

\* ------------------------------------------------------------ Python values

PyInt(n) == [t |-> "int", h |-> 2 * n]
PyFloat(h) == [t |-> "float", h |-> h]
PyStr(s) == [t |-> "str", s |-> s]
NoneV == [t |-> "none"]

\* isinstance(x, (int, float))
IsNumber(x) == x.t \in {"int", "float"}
\* isinstance(x, str)
IsStr(x) == x.t = "str"

Abs(n) == IF n < 0 THEN -n ELSE n

\* x + y and x - y on numbers: int with int is an int, otherwise a float.
NumType(x, y) == IF x.t = "int" /\ y.t = "int" THEN "int" ELSE "float"
PyAdd(x, y) == [t |-> NumType(x, y), h |-> x.h + y.h]
PySub(x, y) == [t |-> NumType(x, y), h |-> x.h - y.h]
\* x < y, x <= y and x == y on numbers compare the values, whatever the types.
PyLt(x, y) == x.h < y.h
PyLe(x, y) == x.h <= y.h
PyEq(x, y) == x.h = y.h

\* ------------------------------------------------------------------- dicts

Keys(d) == {d[i].k : i \in 1..Len(d)}
KeyList(d) == [i \in 1..Len(d) |-> d[i].k]
HasKey(d, k) == \E i \in 1..Len(d) : d[i].k = k
IndexOf(d, k) == CHOOSE i \in 1..Len(d) : d[i].k = k
\* d[k], defined when k is a key
Lookup(d, k) == d[IndexOf(d, k)].v
\* d.get(k, default)
DictGet(d, k, default) == IF HasKey(d, k) THEN Lookup(d, k) ELSE default
\* d[k] = v: an existing key keeps its place, a new key goes last
DictSet(d, k, v) ==
    IF HasKey(d, k)
    THEN [d EXCEPT ![IndexOf(d, k)] = [k |-> k, v |-> v]]
    ELSE Append(d, [k |-> k, v |-> v])
\* del d[k]: the other keys keep their order
DictDel(d, k) == SelectSeq(d, LAMBDA e : e.k # k)
\* d1 == d2: the same keys with equal values, in any order
DictEq(d1, d2) ==
    /\ Keys(d1) = Keys(d2)
    /\ \A k \in Keys(d1) : PyEq(Lookup(d1, k), Lookup(d2, k))

\* ------------------------------------------------- numbers and text as text

Digits == <<"0", "1", "2", "3", "4", "5", "6", "7", "8", "9">>
DigitChar(n) == Digits[n + 1]
IsDigit(c) == \E i \in 1..10 : Digits[i] = c
DigitVal(c) == (CHOOSE i \in 1..10 : Digits[i] = c) - 1

RECURSIVE NatRepr(_)
NatRepr(n) ==
    IF n < 10 THEN <<DigitChar(n)>>
    ELSE NatRepr(n \div 10) \o <<DigitChar(n % 10)>>

\* int.__repr__ and float.__repr__, which json.dump and the f-string both use
NumRepr(x) ==
    LET sign == IF x.h < 0 THEN <<"-">> ELSE <<>>
        whole == NatRepr(Abs(x.h) \div 2)
    IN  IF x.t = "int" THEN sign \o whole
        ELSE sign \o whole \o <<".">>
                  \o (IF Abs(x.h) % 2 = 1 THEN <<"5">> ELSE <<"0">>)

\* a faulty encoder: nothing is escaped
EscapeCharNone(c) == <<c>>

\* json's string encoder: a quote and a backslash are escaped
EscapeChar(c) ==
    IF c = "\"" THEN <<"\\", "\"">>
    ELSE IF c = "\\" THEN <<"\\", "\\">>
    ELSE <<c>>

RECURSIVE EscapeText(_)
EscapeText(s) ==
    IF s = <<>> THEN <<>> ELSE EscapeChar(Head(s)) \o EscapeText(Tail(s))

JsonString(s) == <<"\"">> \o EscapeText(s) \o <<"\"">>

Indent == <<" ", " ", " ", " ">>

JsonMember(e) == Indent \o JsonString(e.k.s) \o <<":", " ">> \o NumRepr(e.v)

RECURSIVE JsonMembers(_)
JsonMembers(d) ==
    IF Len(d) = 1 THEN JsonMember(d[1])
    ELSE JsonMember(d[1]) \o <<",", "\n">> \o JsonMembers(Tail(d))

\* json.dumps(d, indent=4)
JsonDumps(d) ==
    IF d = <<>> THEN <<"{", "}">>
    ELSE <<"{", "\n">> \o JsonMembers(d) \o <<"\n", "}">>

\* ------------------------------------------------------------ json.loads
\* The decoder for the objects of the persisted format: text keys, numbers
\* written without an exponent and with a fraction of .0 or .5.  A result
\* is [ok, pos, val]; ok = FALSE is json.JSONDecodeError.

Fail == [ok |-> FALSE, pos |-> 0, val |-> NoneV]
Ok(p, v) == [ok |-> TRUE, pos |-> p, val |-> v]

At(s, i) == IF i <= Len(s) THEN s[i] ELSE "EOF"
IsWs(c) == c \in {" ", "\n", "\t", "\r"}

RECURSIVE SkipWs(_, _)
SkipWs(s, i) == IF IsWs(At(s, i)) THEN SkipWs(s, i + 1) ELSE i

\* the characters of a string, from the one after the opening quote
RECURSIVE ParseChars(_, _, _)
ParseChars(s, i, acc) ==
    LET c == At(s, i) IN
    IF c = "EOF" \/ c = "\n" THEN Fail
    ELSE IF c = "\"" THEN Ok(i + 1, PyStr(acc))
    ELSE IF c = "\\"
         THEN IF At(s, i + 1) \in {"\"", "\\"}
              THEN ParseChars(s, i + 2, Append(acc, At(s, i + 1)))
              ELSE Fail
    ELSE ParseChars(s, i + 1, Append(acc, c))

ParseString(s, i) == IF At(s, i) = "\"" THEN ParseChars(s, i + 1, <<>>) ELSE Fail

\* the digits from i on: [pos, val]
RECURSIVE ParseDigits(_, _, _)
ParseDigits(s, i, acc) ==
    IF IsDigit(At(s, i)) THEN ParseDigits(s, i + 1, 10 * acc + DigitVal(At(s, i)))
    ELSE [pos |-> i, val |-> acc]

RECURSIVE SkipZeros(_, _)
SkipZeros(s, i) == IF At(s, i) = "0" THEN SkipZeros(s, i + 1) ELSE i

\* -?(0|[1-9][0-9]*)(\.[0-9]+)?  A leading 0 ends the integer part.
ParseNumber(s, i) ==
    LET neg == At(s, i) = "-"
        j == IF neg THEN i + 1 ELSE i
        whole == IF At(s, j) = "0" THEN [pos |-> j + 1, val |-> 0]
                 ELSE ParseDigits(s, j, 0)
        sgn == IF neg THEN -1 ELSE 1
    IN  IF ~IsDigit(At(s, j)) THEN Fail
        ELSE IF At(s, whole.pos) = "." /\ IsDigit(At(s, whole.pos + 1))
        THEN LET f == At(s, whole.pos + 1)
                 end == SkipZeros(s, whole.pos + 2)
             IN  IF f \in {"0", "5"} /\ ~IsDigit(At(s, end))
                 THEN Ok(end, PyFloat(sgn * (2 * whole.val + (IF f = "5" THEN 1 ELSE 0))))
                 ELSE Fail
        ELSE Ok(whole.pos, PyInt(sgn * whole.val))

\* the members of an object, from the first key on; a repeated key keeps its
\* first place and takes the last value
RECURSIVE ParseMembers(_, _, _)
ParseMembers(s, i, acc) ==
    LET key == ParseString(s, i) IN
    IF ~key.ok THEN Fail
    ELSE LET c == SkipWs(s, key.pos) IN
    IF At(s, c) # ":" THEN Fail
    ELSE LET num == ParseNumber(s, SkipWs(s, c + 1)) IN
    IF ~num.ok THEN Fail
    ELSE LET d == DictSet(acc, key.val, num.val)
             e == SkipWs(s, num.pos)
         IN  IF At(s, e) = "}" THEN Ok(e + 1, d)
             ELSE IF At(s, e) = "," THEN ParseMembers(s, SkipWs(s, e + 1), d)
             ELSE Fail

ParseObject(s, i) ==
    IF At(s, i) # "{" THEN Fail
    ELSE LET j == SkipWs(s, i + 1) IN
         IF At(s, j) = "}" THEN Ok(j + 1, <<>>) ELSE ParseMembers(s, j, <<>>)

\* a faulty decoder: what follows the value is not looked at
JsonLoadsLenient(s) == ParseObject(s, SkipWs(s, 1))

\* json.loads(s): one value, then only white space
JsonLoads(s) ==
    LET obj == ParseObject(s, SkipWs(s, 1)) IN
    IF obj.ok /\ SkipWs(s, obj.pos) = Len(s) + 1 THEN obj ELSE Fail

\* --------------------------------------------------------------- the store

ItemA == PyStr(<<"a">>)
ItemQ == PyStr(<<"\"">>)
TextX == PyStr(<<"x">>)
Zero == PyInt(0)

\* what an operation that reports nothing, raises nothing or returns nothing
\* leaves in the record of the last call
Quiet == "none"

Call(op, item, qty, supplied, threshold, raised, reported, ret) ==
    [op |-> op, item |-> item, qty |-> qty, supplied |-> supplied,
     threshold |-> threshold, raised |-> raised, reported |-> reported,
     ret |-> ret]

\* the state when the module has been imported: stock_data = {}, no file
\* written yet, main's logs = []
Init ==
    /\ stock_data = <<>>
    /\ logs = <<>>
    /\ file = [exists |-> FALSE, text |-> <<>>]
    /\ mode = "rw"
    /\ last = Call("import", NoneV, NoneV, FALSE, NoneV, Quiet, Quiet, NoneV)
    /\ deleted = {}
    /\ given = 0

\* a faulty add_item: the check of item is forgotten
ValidAddArgsQtyOnly(item, qty) == IsNumber(qty)

\* add_item's type check
ValidAddArgs(item, qty) == IsStr(item) /\ IsNumber(qty)

\* a faulty add_item: stock_data[item] = qty
AddedQuantityOverwrites(d, item, qty) == PyAdd(Zero, qty)

\* stock_data.get(item, 0) + qty
AddedQuantity(d, item, qty) == PyAdd(DictGet(d, item, Zero), qty)

\* f"{datetime.now()}: Added {qty} of {item}"; the clock's reading is one token
ItemText(item) == IF IsStr(item) THEN item.s ELSE <<"N", "o", "n", "e">>
LogEntry(qty, item) ==
    <<"<now>", ":", " ", "A", "d", "d", "e", "d", " ">> \o NumRepr(qty)
        \o <<" ", "o", "f", " ">> \o ItemText(item)

\* a faulty add_item: a record is appended to the caller's list on every call
LogsAfterAddAlways(l, supplied, qty, item) == Append(l, LogEntry(qty, item))

\* the list add_item appends to is the caller's, or a fresh one of its own
LogsAfterAdd(l, supplied, qty, item) ==
    IF supplied THEN Append(l, LogEntry(qty, item)) ELSE l

WithinBound(v) == Abs(v.h) <= MaxHalves

AddItem(item, qty, supplied) ==
    IF ~ValidAddArgs(item, qty)
    THEN /\ last' = Call("add_item", item, qty, supplied, NoneV,
                         "ValueError", Quiet, NoneV)
         /\ UNCHANGED <<stock_data, logs, file, mode, deleted, given>>
    ELSE /\ WithinBound(AddedQuantity(stock_data, item, qty))
         /\ supplied => Len(logs) < MaxLog
         /\ stock_data' = DictSet(stock_data, item,
                                  AddedQuantity(stock_data, item, qty))
         /\ logs' = LogsAfterAdd(logs, supplied, qty, item)
         /\ given' = IF supplied THEN given + 1 ELSE given
         /\ last' = Call("add_item", item, qty, supplied, NoneV,
                         Quiet, Quiet, NoneV)
         /\ UNCHANGED <<file, mode, deleted>>

\* a faulty remove_item: stock_data[item] < 0
NonPositiveStrict(v) == PyLt(v, Zero)

\* stock_data[item] <= 0
NonPositive(v) == PyLe(v, Zero)

\* a faulty remove_item: stock_data[item] += qty
SubtractedWithPlus(d, item, qty) ==
    LET d2 == DictSet(d, item, PyAdd(Lookup(d, item), qty)) IN
    IF PyLe(Lookup(d2, item), Zero) THEN DictDel(d2, item) ELSE d2

\* the body of remove_item's try, on an item that is present and a numeric qty
Subtracted(d, item, qty) ==
    LET d2 == DictSet(d, item, PySub(Lookup(d, item), qty)) IN
    IF NonPositive(Lookup(d2, item)) THEN DictDel(d2, item) ELSE d2

\* a faulty remove_item: qty's type is looked at before the item is looked up
RemoveOutcomeTypeFirst(d, item, qty) ==
    IF ~IsNumber(qty) THEN [stock |-> d, reported |-> "InvalidQuantityType"]
    ELSE IF ~HasKey(d, item) THEN [stock |-> d, reported |-> "NotFound"]
    ELSE [stock |-> Subtracted(d, item, qty), reported |-> Quiet]

\* remove_item: the subscript raises KeyError before the subtraction can
\* raise TypeError, and both are caught
RemoveOutcome(d, item, qty) ==
    IF ~HasKey(d, item) THEN [stock |-> d, reported |-> "NotFound"]
    ELSE IF ~IsNumber(qty) THEN [stock |-> d, reported |-> "InvalidQuantityType"]
    ELSE [stock |-> Subtracted(d, item, qty), reported |-> Quiet]

RemoveItem(item, qty) ==
    LET out == RemoveOutcome(stock_data, item, qty) IN
    /\ HasKey(stock_data, item) /\ IsNumber(qty)
           => PySub(Lookup(stock_data, item), qty).h <= MaxHalves
    /\ stock_data' = out.stock
    /\ deleted' = IF HasKey(stock_data, item) /\ ~HasKey(out.stock, item)
                  THEN deleted \cup {item} ELSE deleted
    /\ last' = Call("remove_item", item, qty, FALSE, NoneV,
                    Quiet, out.reported, NoneV)
    /\ UNCHANGED <<logs, file, mode, given>>

GetQty(item) ==
    /\ last' = Call("get_qty", item, NoneV, FALSE, NoneV, Quiet, Quiet,
                    DictGet(stock_data, item, Zero))
    /\ UNCHANGED <<stock_data, logs, file, mode, deleted, given>>

\* a faulty check_low_items: qty <= threshold
IsLowOrEqual(qty, threshold) == PyLe(qty, threshold)

\* qty < threshold
IsLow(qty, threshold) == PyLt(qty, threshold)

\* [item for item, qty in stock_data.items() if qty < threshold]
LowItems(d, threshold) ==
    KeyList(SelectSeq(d, LAMBDA e : IsLow(e.v, threshold)))

CheckLowItems(threshold) ==
    /\ last' = Call("check_low_items", NoneV, NoneV, FALSE, threshold,
                    Quiet, Quiet, LowItems(stock_data, threshold))
    /\ UNCHANGED <<stock_data, logs, file, mode, deleted, given>>

\* ----------------------------------------------------------------- the file

CanRead == mode \in {"rw", "r"}
CanWrite == mode \in {"rw", "w"}

\* load_data: open raises FileNotFoundError or PermissionError, json.load
\* raises JSONDecodeError; the first and the last are caught
LoadOutcome(f, readable) ==
    IF ~f.exists
    THEN [raised |-> Quiet, reported |-> "FileNotFound", ret |-> <<>>]
    ELSE IF ~readable
    THEN [raised |-> "PermissionError", reported |-> Quiet, ret |-> NoneV]
    ELSE IF ~JsonLoads(f.text).ok
    THEN [raised |-> Quiet, reported |-> "DecodeError", ret |-> <<>>]
    ELSE [raised |-> Quiet, reported |-> Quiet, ret |-> JsonLoads(f.text).val]

LoadData ==
    LET out == LoadOutcome(file, CanRead) IN
    /\ last' = Call("load_data", NoneV, NoneV, FALSE, NoneV,
                    out.raised, out.reported, out.ret)
    /\ UNCHANGED <<stock_data, logs, file, mode, deleted, given>>

\* main's stock_data.clear(); stock_data.update(data) on what load_data
\* has just returned
ReplaceStock ==
    /\ last.op = "load_data" /\ last.raised = Quiet
    /\ stock_data' = last.ret
    /\ last' = Call("replace", NoneV, NoneV, FALSE, NoneV, Quiet, Quiet, NoneV)
    /\ UNCHANGED <<logs, file, mode, deleted, given>>

\* what json.dump writes after open(file_path, "w") has emptied the file
Written(d) == [exists |-> TRUE, text |-> JsonDumps(d)]

SaveData ==
    IF ~CanWrite
    THEN /\ last' = Call("save_data", NoneV, NoneV, FALSE, NoneV,
                         "PermissionError", Quiet, NoneV)
         /\ UNCHANGED <<stock_data, logs, file, mode, deleted, given>>
    ELSE /\ file' = Written(stock_data)
         /\ last' = Call("save_data", NoneV, NoneV, FALSE, NoneV,
                         Quiet, Quiet, NoneV)
         /\ UNCHANGED <<stock_data, logs, mode, deleted, given>>

\* ------------------------------------------------------- the file's owner
\* Between calls the file at the path is whatever its owner has left there.

InvalidTexts ==
    { <<>>,
      <<"{">>,
      <<"{", "\"", "a", "\"", ":", " ", "1", ",", "}">>,
      <<"{", "\"", "a", "\"", ":", " ", "0", "1", "}">>,
      <<"{", "}", " ", "x">> }

ValidTexts ==
    { <<"{", "}">>,
      <<" ", "{", "\"", "b", "\"", " ", ":", "0", ".", "0", ",", "\n",
        "\"", "a", "\"", ":", "-", "1", ".", "5", ",",
        "\"", "b", "\"", ":", "1", "0", "}", "\n">> }

EnvWrites(text) ==
    /\ file' = [exists |-> TRUE, text |-> text]
    /\ last' = Call("env", NoneV, NoneV, FALSE, NoneV, Quiet, Quiet, NoneV)
    /\ UNCHANGED <<stock_data, logs, mode, deleted, given>>

EnvDeletes ==
    /\ file.exists
    /\ file' = [exists |-> FALSE, text |-> <<>>]
    /\ last' = Call("env", NoneV, NoneV, FALSE, NoneV, Quiet, Quiet, NoneV)
    /\ UNCHANGED <<stock_data, logs, mode, deleted, given>>

EnvChmod(m) ==
    /\ m # mode
    /\ mode' = m
    /\ last' = Call("env", NoneV, NoneV, FALSE, NoneV, Quiet, Quiet, NoneV)
    /\ UNCHANGED <<stock_data, logs, file, deleted, given>>

\* ------------------------------------------------------- specifications

DefaultThreshold == 5

Items == {ItemA, ItemQ, NoneV}
Qtys == {PyInt(1), PyInt(-1), Zero, PyFloat(1), TextX}
Thresholds == {Zero, PyInt(1), PyInt(DefaultThreshold)}

\* the store's four operations on the mapping
Next ==
    \/ \E i \in Items, q \in Qtys : AddItem(i, q, FALSE)
    \/ \E i \in Items, q \in Qtys : RemoveItem(i, q)
    \/ \E i \in Items : GetQty(i)
    \/ \E t \in Thresholds : CheckLowItems(t)

Spec == Init /\ [][Next]_vars

Modes == {"rw", "r", "w"}
FileAdds == {<<ItemA, PyInt(1)>>, <<ItemA, PyInt(-1)>>, <<ItemQ, PyFloat(-1)>>}

\* the store's operations together with the file and its owner
NextFile ==
    \/ \E a \in FileAdds : AddItem(a[1], a[2], FALSE)
    \/ RemoveItem(ItemA, PyInt(1))
    \/ GetQty(ItemA)
    \/ CheckLowItems(PyInt(DefaultThreshold))
    \/ SaveData
    \/ LoadData
    \/ ReplaceStock
    \/ \E t \in InvalidTexts \cup ValidTexts : EnvWrites(t)
    \/ EnvDeletes
    \/ \E m \in Modes : EnvChmod(m)

SpecFile == Init /\ [][NextFile]_vars

LogItems == {ItemA, NoneV}
LogQtys == {PyInt(1), PyFloat(-1), TextX}

\* a caller that passes its log to some of its add_item calls
NextLog ==
    \/ \E i \in LogItems, q \in LogQtys, g \in BOOLEAN : AddItem(i, q, g)
    \/ \E i \in LogItems, q \in LogQtys : RemoveItem(i, q)
    \/ GetQty(ItemA)
    \/ CheckLowItems(PyInt(DefaultThreshold))
    \/ SaveData
    \/ LoadData
    \/ ReplaceStock

SpecLog == Init /\ [][NextLog]_vars

\* ------------------------------------------------------------- properties
\* Every action records its call in last, so in a step that changes the
\* state last' is the call the step made.

Range(q) == {q[i] : i \in 1..Len(q)}
Before(d, k1, k2) == IndexOf(d, k1) < IndexOf(d, k2)
Asked == Keys(stock_data) \cup Keys(stock_data') \cup {last'.item}

\* C1: a successful add_item(item, qty) leaves get_qty(item) at what it was
\* just before the call plus qty (0 + qty for an absent item), for a qty of
\* any sign, and leaves every other item's entry as it was.
C1_AddAccumulates ==
    [][ (last'.op = "add_item" /\ last'.raised = Quiet) =>
          \A i \in Asked :
            IF i = last'.item
            THEN DictGet(stock_data', i, Zero).h
                   = DictGet(stock_data, i, Zero).h + last'.qty.h
            ELSE /\ HasKey(stock_data', i) <=> HasKey(stock_data, i)
                 /\ DictGet(stock_data', i, Zero) = DictGet(stock_data, i, Zero)
      ]_vars

\* add_item(item, -1) has returned on an item that held 1, beside another item
C1_Witness ==
    /\ last.op = "add_item" /\ last.raised = Quiet
    /\ last.qty = PyInt(-1)
    /\ Len(stock_data) = 2
    /\ HasKey(stock_data, last.item)
    /\ Lookup(stock_data, last.item) = Zero

\* C2: remove_item(item, qty) on a present item and a numeric qty sets the
\* entry to stored - qty when that is > 0 and deletes it otherwise, after
\* which get_qty(item) is 0 and no check_low_items(threshold) lists item;
\* no other item's entry changes.
C2_RemoveSubtractsOrDeletes ==
    [][ (/\ last'.op = "remove_item"
         /\ HasKey(stock_data, last'.item)
         /\ IsNumber(last'.qty)) =>
          LET it == last'.item
              r == Lookup(stock_data, it).h - last'.qty.h
          IN  /\ r > 0 => /\ HasKey(stock_data', it)
                          /\ Lookup(stock_data', it).h = r
              /\ r <= 0 => /\ ~HasKey(stock_data', it)
                           /\ DictGet(stock_data', it, Zero) = Zero
                           /\ \A t \in Thresholds :
                                it \notin Range(LowItems(stock_data', t))
              /\ \A k \in Asked \ {it} :
                   /\ HasKey(stock_data', k) <=> HasKey(stock_data, k)
                   /\ DictGet(stock_data', k, Zero) = DictGet(stock_data, k, Zero)
      ]_vars

\* remove_item has deleted its item and another entry remains
C2_Witness ==
    /\ last.op = "remove_item" /\ last.reported = Quiet
    /\ ~HasKey(stock_data, last.item)
    /\ last.item \in deleted
    /\ stock_data # <<>>

\* C3, as claimed: after any remove_item call returns, no entry of the
\* mapping, of any item, has a quantity <= 0.
C3_NoNonPositiveEntryAfterRemove ==
    last.op = "remove_item" =>
        \A i \in 1..Len(stock_data) : stock_data[i].v.h > 0

\* C3, amended: after a remove_item(item, qty) call that found item and
\* subtracted qty, the mapping holds no entry of that item with a
\* quantity <= 0.
C3_RemovedItemNotNonPositive ==
    (last.op = "remove_item" /\ last.reported = Quiet) =>
        \/ ~HasKey(stock_data, last.item)
        \/ Lookup(stock_data, last.item).h > 0

\* remove_item has subtracted from its item, which stays, while another
\* item's entry is <= 0
C3_Witness ==
    /\ last.op = "remove_item" /\ last.reported = Quiet
    /\ HasKey(stock_data, last.item)
    /\ \E i \in 1..Len(stock_data) : stock_data[i].v.h <= 0

C5_LowItemsInInsertionOrder ==
    /\ [](last.op = "check_low_items" =>
            LET r == last.ret IN
            /\ \A k \in Keys(stock_data) :
                 k \in Range(r) <=> Lookup(stock_data, k).h < last.threshold.h
            /\ Range(r) \subseteq Keys(stock_data)
            /\ \A i, j \in 1..Len(r) :
                 i < j => r[i] # r[j] /\ Before(stock_data, r[i], r[j]))
    /\ [][ /\ last'.op = "check_low_items" => stock_data' = stock_data
           /\ (/\ last'.op = "add_item" /\ last'.raised = Quiet
               /\ ~HasKey(stock_data, last'.item)) =>
                  KeyList(stock_data') = Append(KeyList(stock_data), last'.item)
           /\ last'.op \in {"add_item", "remove_item"} =>
                  \A k1, k2 \in Keys(stock_data) \cap Keys(stock_data') :
                     Before(stock_data, k1, k2) <=> Before(stock_data', k1, k2)
         ]_vars

\* check_low_items has listed an item that remove_item had deleted and
\* add_item has added again, after the item that was there all along
C5_Witness ==
    /\ last.op = "check_low_items"
    /\ ItemA \in deleted
    /\ ItemQ \notin deleted
    /\ last.ret = <<ItemQ, ItemA>>

\* C6: on a path that can be written and read, save_data followed by
\* load_data returns a mapping equal to the live mapping, whatever the file
\* held before; save_data leaves the live mapping as it was, and replacing
\* the live mapping by what load_data returned gives a mapping equal to it.
C6_SaveLoadRoundTrip ==
    /\ [][ (last'.op = "save_data" /\ last'.raised = Quiet) =>
              stock_data' = stock_data /\ file'.exists ]_vars
    /\ [][ (/\ last.op = "save_data" /\ last.raised = Quiet
            /\ last'.op = "load_data" /\ CanRead) =>
              /\ last'.raised = Quiet /\ last'.reported = Quiet
              /\ DictEq(last'.ret, stock_data) ]_vars
    /\ [][ last'.op = "replace" =>
              DictEq(stock_data', last.ret) /\ stock_data' = last.ret ]_vars

\* the mapping read back from the file save_data wrote has the key with a
\* quote in it, holding a negative fraction, beside another key
C6_Witness ==
    /\ last.op = "load_data" /\ last.reported = Quiet
    /\ Len(last.ret) >= 2
    /\ HasKey(last.ret, ItemQ)
    /\ Lookup(last.ret, ItemQ) = PyFloat(-1)
    /\ last.ret = stock_data
    /\ file.text = JsonDumps(stock_data)

\* C7: load_data on a path with no file, and on a readable file whose text
\* is no JSON, returns an empty mapping, reports the condition and raises
\* nothing; it leaves the live mapping and the file as they were.
C7_LoadRecovers ==
    [][ (/\ last'.op = "load_data"
         /\ \/ ~file.exists
            \/ CanRead /\ file.text \in InvalidTexts) =>
          /\ last'.raised = Quiet
          /\ last'.ret = <<>>
          /\ last'.reported =
                 (IF file.exists THEN "DecodeError" ELSE "FileNotFound")
          /\ stock_data' = stock_data
          /\ file' = file
      ]_vars

\* load_data has met text that is no JSON while the live mapping held entries
C7_Witness ==
    /\ last.op = "load_data"
    /\ last.reported = "DecodeError"
    /\ last.ret = <<>>
    /\ stock_data # <<>>
    /\ file.text \in InvalidTexts

\* C8: add_item with an item that is no text or a qty that is no number
\* raises ValueError before any effect: the mapping and the caller's log are
\* as they were.
C8_AddRejectsWrongTypes ==
    [][ (/\ last'.op = "add_item"
         /\ ~IsStr(last'.item) \/ ~IsNumber(last'.qty)) =>
          /\ last'.raised = "ValueError"
          /\ stock_data' = stock_data
          /\ logs' = logs
      ]_vars

\* add_item has rejected a call that passed a log holding a record
C8_Witness ==
    /\ last.op = "add_item" /\ last.raised = "ValueError"
    /\ last.supplied
    /\ logs # <<>>
    /\ stock_data # <<>>

\* C9, as claimed: remove_item, get_qty, check_low_items and load_data never
\* raise, whatever the mapping and the file at the path are (missing, no
\* JSON, JSON, unreadable, unwritable).
C9_OnlyAddAndSaveRaise ==
    last.op \in {"remove_item", "get_qty", "check_low_items", "load_data"}
        => last.raised = Quiet

\* C10: a successful add_item that was passed the log appends one record,
\* naming its qty and its item, after the records the log held, and no other
\* call changes the log; so the log is as long as the number of successful
\* add_item calls that were passed it.
C10_LogCountsSuccessfulAdds ==
    /\ [](Len(logs) = given)
    /\ [][ IF last'.op = "add_item" /\ last'.raised = Quiet /\ last'.supplied
           THEN /\ Len(logs') = Len(logs) + 1
                /\ SubSeq(logs', 1, Len(logs)) = logs
                /\ logs'[Len(logs')] =
                     <<"<now>", ":", " ", "A", "d", "d", "e", "d", " ">>
                       \o NumRepr(last'.qty) \o <<" ", "o", "f", " ">>
                       \o last'.item.s
           ELSE logs' = logs
         ]_vars

\* a second record, unlike the first, has been appended to the caller's log
C10_Witness ==
    /\ last.op = "add_item" /\ last.raised = Quiet /\ last.supplied
    /\ Len(logs) = 2
    /\ logs[1] # logs[2]

====
